---- MODULE Spec2Model ----
(***************************************************************************)
(* Model of src/generate_factor_flows.py: the accounting engine            *)
(* (calculate_dollar_flows, calculate_factor_flows) and the part of main   *)
(* that drives it and assembles the output document.                       *)
(*                                                                         *)
(* Numbers.  The program computes with floats and rounds what it emits.    *)
(* The model computes with exact fractions and rounds them the way         *)
(* Python's round() does (to the nearest step, ties to the even step).     *)
(*   - A[i][j] is the numerator of a technical coefficient over ADen.      *)
(*   - x[j] is a whole number of dollar units; one dollar unit is one step *)
(*     of the 4th decimal of a billion, so round(v, 4) of a dollar amount  *)
(*     in billions is rounding to a whole unit and round(v, 3) is rounding *)
(*     to a multiple of DecimalBase units.                                 *)
(*   - an indicator's scale is 1 / scale_den, in steps of the 6th decimal  *)
(*     of the display unit per raw unit, so round(v, 6) of a factor amount *)
(*     is rounding to a whole unit and round(v, 4) is rounding to a        *)
(*     multiple of DecimalBase * DecimalBase units.                        *)
(* Float representation error is not modelled.  Intensities and            *)
(* coefficients are non-negative, as in the USEEIO tables.                 *)
(*                                                                         *)
(* Inputs.  The tables are every table of two sectors within the bounds,   *)
(* and tables of three sectors whose entries sit at the ends of their      *)
(* ranges.  A row of N, when present, satisfies N = D * L.  The sector     *)
(* metadata (get_sector_metadata, calculate_sector_totals) and the         *)
(* informational prints are left out.                                      *)
(***************************************************************************)
EXTENDS Integers, Sequences, FiniteSets, TLC

VARIABLES data, config, pc, k, flow_types, sector_accounts, diag, output

vars == <<data, config, pc, k, flow_types, sector_accounts, diag, output>>

----------------------------------------------------------------------------
(* Size of the model *)

\* A[i][j] is a numerator in 0 .. MaxA over the denominator ADen
MaxA == 1
ADen == 2
\* x[j] is in 1 .. MaxX
MaxX == 3
\* D[name][j] is in 0 .. MaxD
MaxD == 1
\* the step between two neighbouring decimal places (10 in the program)
DecimalBase == 2
\* the edge cap of calculate_factor_flows (5000 in the program)
max_flows == 2
\* the dollar threshold main passes (0.1 billion in the program), in units
DollarThreshold == 1
\* threshold_pct is a numerator over ThrDen (0.0001 in the program)
ThrDen == 4
\* threshold numerators the threshold specification draws from: 0 .. MaxThr
MaxThr == 2

\* the values an N row is drawn from
NVals == 0 .. (2 * MaxD + 1)

\* the sector indices of the two input families: every table of two sectors
\* within the bounds, and tables of three sectors
SmallSectors == {0, 1}
WideSectors == {0, 1, 2}

\* the factor 1e9 of total_multiplier ("per billion $"), scaled down
PerBillion == DecimalBase * DecimalBase * DecimalBase * DecimalBase

----------------------------------------------------------------------------
(* Arithmetic *)

\* round(num / den) to an integer, ties to even: Python's round()
Round(num, den) ==
    LET q == num \div den
        r == num - q * den
    IN  IF 2 * r < den THEN q
        ELSE IF 2 * r > den THEN q + 1
        ELSE IF q % 2 = 0 THEN q ELSE q + 1

\* round(num / den) to the nearest multiple of step (a coarser decimal place)
RoundStep(num, den, step) == step * Round(num, den * step)

RECURSIVE SeqSum(_)
SeqSum(s) == IF s = <<>> THEN 0 ELSE s[1] + SeqSum(Tail(s))

\* n = len(A); the sectors are 0 .. n - 1
n_sectors(d) == Cardinality(DOMAIN d.A)
SectorsOf(d) == DOMAIN d.A

\* the (i, j) pairs in the order of "for i in range(n): for j in range(n)"
PairAt(d, p) ==
    [i |-> (p - 1) \div n_sectors(d), j |-> (p - 1) % n_sectors(d)]

\* dollar_flow_matrix[i, j] = A[i, j] * x[j], a numerator over ADen
Z(d, i, j) == d.A[i][j] * d.x[j]

\* column sum of the dollar flow matrix: what sector j buys
ColSum(d, j) == SeqSum([p \in 1 .. n_sectors(d) |-> Z(d, p - 1, j)])

\* row sum of the dollar flow matrix: what sector t sells to industries
RowSum(d, t) == SeqSum([p \in 1 .. n_sectors(d) |-> Z(d, t, p - 1)])

----------------------------------------------------------------------------
(* flows.sort(key=lambda x: -x['value']): a stable sort, descending *)

InsertAsc(t, e) ==
    LET m == Cardinality({q \in 1 .. Len(t) : t[q].value <= e.value})
    IN  SubSeq(t, 1, m) \o <<e>> \o SubSeq(t, m + 1, Len(t))

\* e goes behind every element whose key -value is <= its own
InsertDesc(t, e) ==
    LET m == Cardinality({q \in 1 .. Len(t) : t[q].value >= e.value})
    IN  SubSeq(t, 1, m) \o <<e>> \o SubSeq(t, m + 1, Len(t))

RECURSIVE SortAsc(_)
SortAsc(s) ==
    IF s = <<>> THEN <<>>
    ELSE InsertAsc(SortAsc(SubSeq(s, 1, Len(s) - 1)), s[Len(s)])

RECURSIVE SortDesc(_)
SortDesc(s) ==
    IF s = <<>> THEN <<>>
    ELSE InsertDesc(SortDesc(SubSeq(s, 1, Len(s) - 1)), s[Len(s)])

----------------------------------------------------------------------------
(* calculate_dollar_flows *)

ValueAddedSwapped(total_output, intermediate_inputs, intermediate_sales) ==
    total_output - intermediate_sales

\* value_added = total_output - intermediate_inputs (numerators over ADen)
ValueAdded(total_output, intermediate_inputs, intermediate_sales) ==
    total_output - intermediate_inputs

\* sector_accounts[j] of calculate_dollar_flows, every field round(., 4)
DollarAccount(d, j) ==
    LET total_output == d.x[j] * ADen
        intermediate_inputs == ColSum(d, j)
        intermediate_sales == RowSum(d, j)
        value_added == ValueAdded(total_output, intermediate_inputs,
                                  intermediate_sales)
        final_demand == total_output - intermediate_sales
    IN  [total_output |-> Round(total_output, ADen),
         intermediate_inputs |-> Round(intermediate_inputs, ADen),
         intermediate_sales |-> Round(intermediate_sales, ADen),
         value_added |-> Round(value_added, ADen),
         final_demand |-> Round(final_demand, ADen)]

\* "for i in range(n): for j in range(n): if value >= threshold: append",
\* from the p-th pair on; the value appended is round(value, 3)
RECURSIVE DollarScan(_, _, _)
DollarScan(d, threshold, p) ==
    IF p > n_sectors(d) * n_sectors(d) THEN <<>>
    ELSE LET i == PairAt(d, p).i
             j == PairAt(d, p).j
         IN  (IF Z(d, i, j) >= threshold * ADen
              THEN <<[from |-> i, to |-> j,
                      value |-> RoundStep(Z(d, i, j), ADen, DecimalBase)]>>
              ELSE <<>>) \o DollarScan(d, threshold, p + 1)

\* the edges at or above the threshold, in (i, j) order
DollarEdges(d, threshold) == DollarScan(d, threshold, 1)

TruncateTail(flows) ==
    SubSeq(flows,
           IF Len(flows) < max_flows THEN 1 ELSE Len(flows) - max_flows + 1,
           Len(flows))

\* flows[:max_flows], the cut calculate_factor_flows makes
Truncate(flows) ==
    SubSeq(flows, 1, IF Len(flows) < max_flows THEN Len(flows) ELSE max_flows)

DollarTopFlowsCapped(d, threshold) ==
    Truncate(SortDesc(DollarEdges(d, threshold)))

\* the list calculate_dollar_flows returns: sorted, not cut
DollarTopFlows(d, threshold) == SortDesc(DollarEdges(d, threshold))

calculate_dollar_flows(d, threshold) ==
    [flows |-> DollarTopFlows(d, threshold),
     sector_accounts |-> [j \in SectorsOf(d) |-> DollarAccount(d, j)]]

----------------------------------------------------------------------------
(* calculate_factor_flows *)

NTotalZero(d, indicator_name) ==
    IF indicator_name \in DOMAIN d.N THEN d.N[indicator_name]
    ELSE [t \in SectorsOf(d) |-> 0]

\* n_total: the N row, or the D row when the indicator is not in N
NTotal(d, indicator_name) ==
    IF indicator_name \in DOMAIN d.N THEN d.N[indicator_name]
    ELSE d.D[indicator_name]

FactorOutNoPolicy(n_t, sales_dollars, final_demand_dollars, total_output) ==
    [factor_to_intermediates |-> n_t * sales_dollars,
     factor_to_final_demand |-> n_t * final_demand_dollars]

\* the two outflows of sector t, numerators over ADen * scale_den, from its
\* intermediate_sales_dollars and final_demand_dollars (numerators over ADen)
\* and its total_factor_output
FactorOut(n_t, sales_dollars, final_demand_dollars, total_output) ==
    IF final_demand_dollars >= 0
    THEN [factor_to_intermediates |-> n_t * sales_dollars,
          factor_to_final_demand |-> n_t * final_demand_dollars]
    ELSE [factor_to_intermediates |-> total_output,
          factor_to_final_demand |-> 0]

\* sector_accounts[t] of calculate_factor_flows, every field round(., 6)
FactorAccount(d, indicator_name, cfg, t) ==
    LET q == ADen * cfg.scale_den
        dd == d.D[indicator_name]
        n_total == NTotal(d, indicator_name)
        direct_factor == dd[t] * d.x[t] * ADen
        embodied_in_inputs ==
            SeqSum([p \in 1 .. n_sectors(d) |-> n_total[p - 1] * Z(d, p - 1, t)])
        total_factor_output == n_total[t] * d.x[t] * ADen
        intermediate_sales_dollars == RowSum(d, t)
        final_demand_dollars == d.x[t] * ADen - intermediate_sales_dollars
        out == FactorOut(n_total[t], intermediate_sales_dollars,
                         final_demand_dollars, total_factor_output)
        total_factor_out ==
            out.factor_to_intermediates + out.factor_to_final_demand
    IN  [direct_factor |-> Round(direct_factor, q),
         embodied_in_inputs |-> Round(embodied_in_inputs, q),
         total_factor_output |-> Round(total_factor_output, q),
         total_multiplier |-> Round(n_total[t] * PerBillion, cfg.scale_den),
         factor_to_intermediates |-> Round(out.factor_to_intermediates, q),
         factor_to_final_demand |-> Round(out.factor_to_final_demand, q),
         total_factor_out |-> Round(total_factor_out, q)]

\* total_factor = sum of d[i] * x[i] * scale, a numerator over ADen * scale_den
TotalFactor(d, indicator_name) ==
    SeqSum([p \in 1 .. n_sectors(d) |->
              d.D[indicator_name][p - 1] * d.x[p - 1] * ADen])

AnyPair(i, j) == TRUE

\* "if i != j": self-flows are left out
FactorPair(i, j) == i # j

BelowThreshold(value, total_factor, threshold_pct) ==
    value * ThrDen <= total_factor * threshold_pct

\* "value >= threshold" with threshold = total_factor * threshold_pct
AtLeastThreshold(value, total_factor, threshold_pct) ==
    value * ThrDen >= total_factor * threshold_pct

\* "for i ...: for j ...: if i != j: if value >= threshold: append", from the
\* p-th pair on; the value appended is round(value, 6)
RECURSIVE FactorScan(_, _, _, _)
FactorScan(d, indicator_name, cfg, p) ==
    IF p > n_sectors(d) * n_sectors(d) THEN <<>>
    ELSE LET i == PairAt(d, p).i
             j == PairAt(d, p).j
             value == NTotal(d, indicator_name)[i] * Z(d, i, j)
         IN  (IF /\ FactorPair(i, j)
                 /\ AtLeastThreshold(value, TotalFactor(d, indicator_name),
                                     cfg.threshold_pct)
              THEN <<[from |-> i, to |-> j,
                      value |-> Round(value, ADen * cfg.scale_den)]>>
              ELSE <<>>) \o FactorScan(d, indicator_name, cfg, p + 1)

\* the edges at or above the threshold, in (i, j) order
FactorEdges(d, indicator_name, cfg) == FactorScan(d, indicator_name, cfg, 1)

WarnD(indicator_name) ==
    [warning |-> "not found in D matrix", indicator |-> indicator_name]
WarnN(indicator_name) ==
    [warning |-> "not found in N matrix, using D", indicator |-> indicator_name]

\* returns flows, total_factor (a fraction) and the sector accounts; warnings
\* is what it prints with "Warning:"
calculate_factor_flows(d, indicator_name, cfg) ==
    IF indicator_name \notin DOMAIN d.D
    THEN [flows |-> <<>>, total |-> [num |-> 0, den |-> 1],
          sector_accounts |-> [t \in {} |-> 0],
          warnings |-> <<WarnD(indicator_name)>>]
    ELSE [flows |-> Truncate(SortDesc(FactorEdges(d, indicator_name, cfg))),
          total |-> [num |-> TotalFactor(d, indicator_name),
                     den |-> ADen * cfg.scale_den],
          sector_accounts |->
              [t \in SectorsOf(d) |-> FactorAccount(d, indicator_name, cfg, t)],
          warnings |-> IF indicator_name \in DOMAIN d.N THEN <<>>
                       ELSE <<WarnN(indicator_name)>>]

----------------------------------------------------------------------------
(* main *)

\* the configuration table: two of its entries, in dictionary order
KEY_INDICATORS ==
    <<[name |-> "Greenhouse Gases", code |-> "GHG", scale_den |-> 2,
       threshold_pct |-> 1],
      [name |-> "Jobs Supported", code |-> "JOBS", scale_den |-> 1,
       threshold_pct |-> 1]>>

IndicatorNames == {KEY_INDICATORS[q].name : q \in 1 .. Len(KEY_INDICATORS)}

\* N = D * L, that is N = D + N * A, row by row
WellFormedN(a, drow) ==
    {nrow \in [DOMAIN a -> NVals] :
        \A t \in DOMAIN a :
            nrow[t] * ADen =
                drow[t] * ADen
                + SeqSum([p \in 1 .. Cardinality(DOMAIN a) |->
                            nrow[p - 1] * a[p - 1][t]])}

\* the tables load_useeio_data returns: A, x and a D row from the sets given;
\* presence is the pairs (indicators with a row in D, indicators with a row
\* in N); an N row is one that fits A and the D row
Loads(as, xs, drows, presence) ==
    \E a \in as, drow \in drows :
        \E nrow \in WellFormedN(a, drow) \cup {drow} :
            \E xx \in xs, pr \in presence :
                /\ IF pr[2] = {} THEN nrow = drow
                   ELSE nrow \in WellFormedN(a, drow)
                /\ data = [A |-> a, x |-> xx,
                           D |-> [name \in pr[1] |-> drow],
                           N |-> [name \in pr[2] |-> nrow]]

\* every table of two sectors within the bounds
LoadsSmall(presence) ==
    Loads([SmallSectors -> [SmallSectors -> 0 .. MaxA]],
          [SmallSectors -> 1 .. MaxX],
          [SmallSectors -> 0 .. MaxD],
          presence)

\* tables of three sectors: coefficients, outputs and intensities at the ends
\* of their ranges, no sector buying from itself
LoadsWide(presence) ==
    Loads({a \in [WideSectors -> [WideSectors -> {0, MaxA}]] :
              \A i \in WideSectors : a[i][i] = 0},
          [WideSectors -> {1, MaxX}],
          [WideSectors -> {0, MaxD}],
          presence)

\* each indicator with or without a row in D, and with or without a row in N
\* if it has one in D
AnyPresence ==
    {pr \in (SUBSET IndicatorNames) \X (SUBSET IndicatorNames) :
        pr[2] \subseteq pr[1]}

\* every indicator in D; N with a row for all of them or for none
FullPresence ==
    {<<IndicatorNames, {}>>, <<IndicatorNames, IndicatorNames>>}

StoreFlowTypeIfAny(ft, cfg, res) ==
    IF res.flows = <<>> THEN ft
    ELSE (cfg.code :> [name |-> cfg.name, code |-> cfg.code,
                       total |-> RoundStep(res.total.num, res.total.den,
                                           DecimalBase * DecimalBase),
                       top_flows |-> res.flows]) @@ ft

\* flow_types[code] = {...}, with 'total': round(total, 4)
StoreFlowType(ft, cfg, res) ==
    (cfg.code :> [name |-> cfg.name, code |-> cfg.code,
                  total |-> RoundStep(res.total.num, res.total.den,
                                      DecimalBase * DecimalBase),
                  top_flows |-> res.flows]) @@ ft

Init ==
    /\ config = KEY_INDICATORS
    /\ LoadsSmall(AnyPresence) \/ LoadsWide(FullPresence)
    /\ pc = "dollars"
    /\ k = 1
    /\ flow_types = [c \in {} |-> 0]
    /\ sector_accounts = [c \in {} |-> 0]
    /\ diag = <<>>
    /\ output = <<>>

\* main, "Dollar flows"
DollarFlows ==
    /\ pc = "dollars"
    /\ \E res \in {calculate_dollar_flows(data, DollarThreshold)} :
          /\ flow_types' =
                ("dollars" :> [name |-> "Dollar Flows", code |-> "USD",
                               top_flows |-> res.flows]) @@ flow_types
          /\ sector_accounts' =
                ("dollars" :> res.sector_accounts) @@ sector_accounts
    /\ pc' = "factors"
    /\ UNCHANGED <<data, config, k, diag, output>>

\* main, one turn of "for ind_name, ind_config in KEY_INDICATORS.items()"
FactorFlows ==
    /\ pc = "factors"
    /\ k <= Len(config)
    /\ \E cfg \in {config[k]} :
          \E res \in {calculate_factor_flows(data, cfg.name, cfg)} :
              /\ flow_types' = StoreFlowType(flow_types, cfg, res)
              /\ sector_accounts' =
                    (cfg.code :> res.sector_accounts) @@ sector_accounts
              /\ diag' = diag \o res.warnings
    /\ k' = k + 1
    /\ UNCHANGED <<data, config, pc, output>>

\* main, "Build output data" and json.dump
SaveOutput ==
    /\ pc = "factors"
    /\ k > Len(config)
    /\ output' =
          <<[flow_types |-> flow_types,
             sector_accounts |-> sector_accounts,
             indicator_metadata |->
                 {config[q].code : q \in 1 .. Len(config)} \cup {"USD"}]>>
    /\ pc' = "done"
    /\ UNCHANGED <<data, config, k, flow_types, sector_accounts, diag>>

Next == DollarFlows \/ FactorFlows \/ SaveOutput

Spec == Init /\ [][Next]_vars

\* the configurations of the threshold specification: two indicators that
\* differ in threshold_pct only
ThresholdConfigs ==
    {<<[name |-> "Greenhouse Gases", code |-> "GHG", scale_den |-> 1,
        threshold_pct |-> f1],
       [name |-> "Jobs Supported", code |-> "JOBS", scale_den |-> 1,
        threshold_pct |-> f2]>> :
         f1 \in 0 .. MaxThr, f2 \in 0 .. MaxThr}

\* both indicators read the same D row and the same n_total; the second's
\* threshold_pct is at least the first's
InitThreshold ==
    /\ config \in ThresholdConfigs
    /\ config[1].threshold_pct <= config[2].threshold_pct
    /\ LoadsWide(FullPresence)
    /\ pc = "dollars"
    /\ k = 1
    /\ flow_types = [c \in {} |-> 0]
    /\ sector_accounts = [c \in {} |-> 0]
    /\ diag = <<>>
    /\ output = <<>>

SpecThreshold == InitThreshold /\ [][Next]_vars

----------------------------------------------------------------------------
(* What the claims are stated over *)

Abs(v) == IF v < 0 THEN -v ELSE v

\* the indicators main has been through
Processed == {q \in 1 .. Len(config) : q < k}

\* an indicator that calculate_factor_flows reports in full
Reported(q) == q \in Processed /\ config[q].name \in DOMAIN data.D

FallsBack(q) == Reported(q) /\ config[q].name \notin DOMAIN data.N

AccountsOf(q) == sector_accounts[config[q].code]
FlowsOf(q) == flow_types[config[q].code].top_flows
DollarsDone == "dollars" \in DOMAIN flow_types
Sectors == SectorsOf(data)
DollarFlowsOut == flow_types["dollars"].top_flows

NonIncreasing(flows) ==
    \A p \in 1 .. Len(flows) - 1 : flows[p].value >= flows[p + 1].value

\* position of the pair (i, j) in the double loop
Rank(e) == e.from * n_sectors(data) + e.to

Has(flows, i, j) ==
    \E p \in 1 .. Len(flows) : flows[p].from = i /\ flows[p].to = j

----------------------------------------------------------------------------
(* C1 *)

BalancedIn(acc) ==
    Abs(acc.direct_factor + acc.embodied_in_inputs - acc.total_factor_output)
        <= 1

\* C1: in every sector account calculate_factor_flows emits, direct_factor +
\* embodied_in_inputs equals total_factor_output within the rounding of the
\* three fields (one unit of the 6th decimal), whether n_total is the N row
\* or, the N row being absent, the D row.
FactorBalanceInput ==
    \A q \in 1 .. Len(config) :
        Reported(q) => \A t \in Sectors : BalancedIn(AccountsOf(q)[t])

\* the balance where the N row is present (N = D * L)
FactorBalanceInputWithN ==
    \A q \in 1 .. Len(config) :
        (Reported(q) /\ ~FallsBack(q)) =>
            \A t \in Sectors : BalancedIn(AccountsOf(q)[t])

----------------------------------------------------------------------------
(* C2 *)

\* C2 as stated: in every dollar account, intermediate_inputs + value_added
\* and intermediate_sales + final_demand both equal total_output exactly.
DollarIdentityExact ==
    DollarsDone =>
        \A j \in Sectors :
            LET acc == sector_accounts["dollars"][j]
            IN  /\ acc.intermediate_inputs + acc.value_added = acc.total_output
                /\ acc.intermediate_sales + acc.final_demand = acc.total_output

\* C2 as amended: in every dollar account, intermediate_inputs + value_added
\* and intermediate_sales + final_demand are each within one unit of the 4th
\* decimal of total_output, and intermediate_inputs and intermediate_sales
\* are the rounded column and row sums of Z.
DollarIdentityRounded ==
    DollarsDone =>
        \A j \in Sectors :
            LET acc == sector_accounts["dollars"][j]
            IN  /\ Abs(acc.intermediate_inputs + acc.value_added
                       - acc.total_output) <= 1
                /\ Abs(acc.intermediate_sales + acc.final_demand
                       - acc.total_output) <= 1
                /\ acc.intermediate_inputs = Round(ColSum(data, j), ADen)
                /\ acc.intermediate_sales = Round(RowSum(data, j), ADen)

\* a dollar account whose rounded fields miss the identity by one unit, and
\* one with inputs that keeps it
DollarIdentityWitness ==
    /\ DollarsDone
    /\ \E j \in Sectors :
          LET acc == sector_accounts["dollars"][j]
          IN  acc.intermediate_inputs + acc.value_added # acc.total_output
    /\ \E j \in Sectors :
          LET acc == sector_accounts["dollars"][j]
          IN  /\ acc.intermediate_inputs > 0
              /\ acc.intermediate_sales > 0
              /\ acc.intermediate_inputs # acc.intermediate_sales
              /\ acc.intermediate_inputs + acc.value_added = acc.total_output

----------------------------------------------------------------------------
(* C3 *)

FinalDemandDollars(t) == data.x[t] * ADen - RowSum(data, t)

\* C3: in every factor account, a sector whose intermediate sales exceed its
\* output has factor_to_final_demand 0 and factor_to_intermediates equal to
\* total_factor_output; any other sector has the two outflows n_total[t] *
\* intermediate_sales * scale and n_total[t] * final_demand * scale, none
\* negative; in both cases total_factor_out equals total_factor_output.
NegativeFinalDemandPolicy ==
    \A q \in 1 .. Len(config) :
        Reported(q) =>
            \A t \in Sectors :
                LET acc == AccountsOf(q)[t]
                    den == ADen * config[q].scale_den
                    n_t == NTotal(data, config[q].name)[t]
                IN  /\ acc.total_factor_out = acc.total_factor_output
                    /\ acc.factor_to_final_demand >= 0
                    /\ IF FinalDemandDollars(t) < 0
                       THEN /\ acc.factor_to_final_demand = 0
                            /\ acc.factor_to_intermediates
                                   = acc.total_factor_output
                       ELSE /\ acc.factor_to_intermediates
                                   = Round(n_t * RowSum(data, t), den)
                            /\ acc.factor_to_final_demand
                                   = Round(n_t * FinalDemandDollars(t), den)

\* a reported sector with negative final demand and a factor content, next to
\* one with positive final demand that sells to industries
NegativeFinalDemandWitness ==
    \E q \in 1 .. Len(config) :
        /\ Reported(q)
        /\ \E t \in Sectors :
              /\ FinalDemandDollars(t) < 0
              /\ AccountsOf(q)[t].total_factor_output > 0
              /\ AccountsOf(q)[t].factor_to_intermediates > 0
        /\ \E t \in Sectors :
              /\ FinalDemandDollars(t) > 0
              /\ AccountsOf(q)[t].factor_to_intermediates > 0
              /\ AccountsOf(q)[t].factor_to_final_demand > 0

----------------------------------------------------------------------------
(* C4 *)

----------------------------------------------------------------------------
(* C5 *)

\* the edges that passed the threshold and are not in the list returned
Removed(q) ==
    LET passed == FactorEdges(data, config[q].name, config[q])
    IN  {passed[p] : p \in {r \in 1 .. Len(passed) :
                               ~Has(FlowsOf(q), passed[r].from, passed[r].to)}}

\* C5: an indicator's top_flows has at most max_flows edges, and no edge that
\* passed the threshold and was cut has a value above a retained edge's.
EdgeCap ==
    \A q \in 1 .. Len(config) :
        Reported(q) =>
            /\ Len(FlowsOf(q)) <= max_flows
            /\ \A e \in Removed(q) :
                  \A p \in 1 .. Len(FlowsOf(q)) : e.value <= FlowsOf(q)[p].value

\* the cap cuts an edge, one of a smaller value than a retained one
EdgeCapWitness ==
    \E q \in 1 .. Len(config) :
        /\ Reported(q)
        /\ Len(FlowsOf(q)) = max_flows
        /\ \E e \in Removed(q) :
              \E p \in 1 .. Len(FlowsOf(q)) : e.value < FlowsOf(q)[p].value

----------------------------------------------------------------------------
(* C6 *)

\* the pairs whose dollar flow is at or above the threshold main passes
DollarPairs ==
    {pr \in Sectors \X Sectors :
        Z(data, pr[1], pr[2]) >= DollarThreshold * ADen}

\* C6 as stated: the dollar edge list has at most max_flows edges.
DollarEdgeListCapped ==
    DollarsDone => Len(DollarFlowsOut) <= max_flows

\* C6 as amended: the dollar edge list is not cut; it holds every pair (i, j)
\* whose flow Z[i, j] is at or above the dollar threshold, once, so its size
\* is bounded by the number of sector pairs only.
DollarEdgeListComplete ==
    DollarsDone =>
        /\ Len(DollarFlowsOut) = Cardinality(DollarPairs)
        /\ \A pr \in DollarPairs : Has(DollarFlowsOut, pr[1], pr[2])
        /\ Len(DollarFlowsOut) <= n_sectors(data) * n_sectors(data)

\* a dollar edge list longer than the cap
DollarEdgeListWitness ==
    DollarsDone /\ Len(DollarFlowsOut) > max_flows

----------------------------------------------------------------------------
(* C7 *)

InDiag(w) == \E p \in 1 .. Len(diag) : diag[p] = w

AllCodes == {config[q].code : q \in 1 .. Len(config)} \cup {"dollars"}

\* C7: an indicator absent from D gets empty flows, total 0, empty sector
\* accounts and a warning; the run goes on through every later indicator, and
\* the document written has a flow_types entry and a sector_accounts entry
\* for every configured code and for "dollars".
MissingDNonFatal ==
    /\ \A q \in Processed :
          /\ config[q].code \in DOMAIN flow_types
          /\ config[q].code \in DOMAIN sector_accounts
          /\ IF config[q].name \in DOMAIN data.D
             THEN DOMAIN AccountsOf(q) = Sectors
             ELSE /\ FlowsOf(q) = <<>>
                  /\ flow_types[config[q].code].total = 0
                  /\ DOMAIN AccountsOf(q) = {}
                  /\ InDiag(WarnD(config[q].name))
    /\ pc = "done" =>
          /\ Processed = 1 .. Len(config)
          /\ Len(output) = 1
          /\ DOMAIN output[1].flow_types = AllCodes
          /\ DOMAIN output[1].sector_accounts = AllCodes

\* the document is written after a run in which the first indicator is
\* absent from D and the second is reported with an edge
MissingDWitness ==
    /\ pc = "done"
    /\ config[1].name \notin DOMAIN data.D
    /\ Reported(2)
    /\ Len(output[1].flow_types[config[2].code].top_flows) > 0
    /\ output[1].flow_types[config[1].code].top_flows = <<>>

----------------------------------------------------------------------------
(* C8 *)

\* C8: for an indicator in D and not in N, every sector's embodied_in_inputs
\* is the sum over i of D[i] * A[i,t] * x[t] * scale, its total_factor_output
\* equals its direct_factor, every edge's value is D[i] * A[i,j] * x[j] *
\* scale, the warning is printed and every sector has an account.
MissingNDegradesToD ==
    \A q \in 1 .. Len(config) :
        FallsBack(q) =>
            LET d == data.D[config[q].name]
                den == ADen * config[q].scale_den
            IN  /\ DOMAIN AccountsOf(q) = Sectors
                /\ InDiag(WarnN(config[q].name))
                /\ \A t \in Sectors :
                      /\ AccountsOf(q)[t].embodied_in_inputs =
                            Round(SeqSum([p \in 1 .. n_sectors(data) |->
                                            d[p - 1] * data.A[p - 1][t]
                                              * data.x[t]]), den)
                      /\ AccountsOf(q)[t].total_factor_output
                            = AccountsOf(q)[t].direct_factor
                /\ \A p \in 1 .. Len(FlowsOf(q)) :
                      LET e == FlowsOf(q)[p]
                      IN  e.value = Round(d[e.from] * data.A[e.from][e.to]
                                            * data.x[e.to], den)

\* an indicator that falls back to D, with a sector that has embodied inputs
\* and an edge of a value above 0
MissingNWitness ==
    \E q \in 1 .. Len(config) :
        /\ FallsBack(q)
        /\ \E t \in Sectors : AccountsOf(q)[t].embodied_in_inputs > 0
        /\ \E p \in 1 .. Len(FlowsOf(q)) : FlowsOf(q)[p].value > 0

----------------------------------------------------------------------------
(* C9 *)

\* C9: every top_flows list, the dollar one included, is non-increasing in
\* value, and dollar edges of equal value stand in the order of the double
\* loop over (i, j).
SortOrder ==
    /\ \A c \in DOMAIN flow_types : NonIncreasing(flow_types[c].top_flows)
    /\ DollarsDone =>
          \A p \in 1 .. Len(DollarFlowsOut) :
              \A r \in 1 .. Len(DollarFlowsOut) :
                  (p < r /\ DollarFlowsOut[p].value = DollarFlowsOut[r].value)
                      => Rank(DollarFlowsOut[p]) < Rank(DollarFlowsOut[r])

\* a dollar list in which the sort moved an edge in front of an earlier pair
\* and left two edges of equal value in loop order, and an indicator's list
\* in which it moved an edge in front of an earlier pair
SortOrderWitness ==
    /\ DollarsDone
    /\ \E q \in 1 .. Len(config) :
          /\ Reported(q)
          /\ Len(FlowsOf(q)) = 2
          /\ FlowsOf(q)[1].value > FlowsOf(q)[2].value
          /\ Rank(FlowsOf(q)[1]) > Rank(FlowsOf(q)[2])
    /\ \E p \in 1 .. Len(DollarFlowsOut) :
          \E r \in 1 .. Len(DollarFlowsOut) :
              /\ p < r
              /\ DollarFlowsOut[p].value > DollarFlowsOut[r].value
              /\ Rank(DollarFlowsOut[p]) > Rank(DollarFlowsOut[r])
    /\ \E p \in 1 .. Len(DollarFlowsOut) :
          \E r \in 1 .. Len(DollarFlowsOut) :
              p < r /\ DollarFlowsOut[p].value = DollarFlowsOut[r].value

----------------------------------------------------------------------------
(* C10 *)

\* the self-flow of sector i is at or above the indicator's threshold
SelfFlowPasses(q, i) ==
    AtLeastThreshold(NTotal(data, config[q].name)[i] * Z(data, i, i),
                     TotalFactor(data, config[q].name),
                     config[q].threshold_pct)

\* C10: no edge of an indicator's top_flows has from = to; the dollar list
\* has the edge (i, i) for every sector whose own flow Z[i, i] is at or above
\* the dollar threshold.
NoSelfLoops ==
    /\ \A q \in Processed :
          \A p \in 1 .. Len(FlowsOf(q)) : FlowsOf(q)[p].from # FlowsOf(q)[p].to
    /\ DollarsDone =>
          \A i \in Sectors :
              Z(data, i, i) >= DollarThreshold * ADen
                  => Has(DollarFlowsOut, i, i)

\* an indicator with a self-flow at or above its threshold and above every
\* edge of its list, while the dollar list has a self-loop
NoSelfLoopsWitness ==
    /\ DollarsDone
    /\ \E i \in Sectors : Has(DollarFlowsOut, i, i)
    /\ \E q \in 1 .. Len(config) :
          /\ Reported(q)
          /\ \E i \in Sectors :
                /\ SelfFlowPasses(q, i)
                /\ NTotal(data, config[q].name)[i] * Z(data, i, i) > 0
                /\ \A p \in 1 .. Len(FlowsOf(q)) :
                      FlowsOf(q)[p].value * ADen * config[q].scale_den
                          < NTotal(data, config[q].name)[i] * Z(data, i, i)
                /\ Len(FlowsOf(q)) > 0

====
